---- MODULE Spec2Model ----
(***************************************************************************)
(* Model of the LandChain chaincode (contract AssetTransfer): the world     *)
(* state of the ledger, the transactions the contract exposes and the       *)
(* signature / previous-owner validation of CreateAsset.                    *)
(*                                                                          *)
(* A transaction is modelled in three steps: a client submits a proposal    *)
(* (Submit), the contract method runs as one atomic step (the action named  *)
(* after the method) and the response is delivered (Return).                *)
(*                                                                          *)
(* SpecConc models two clients whose CreateAsset transactions overlap: each *)
(* transaction is simulated against the committed world state (Simulate)    *)
(* and its write is committed later (Commit).                               *)
(***************************************************************************)
EXTENDS Integers, Sequences, FiniteSets, TLC

VARIABLES ledger, clock, pc, req, resp, pre, version, tx

vars == <<ledger, clock, pc, req, resp, pre, version, tx>>

(***************************************************************************)
(* Bounds of the model.                                                     *)
(***************************************************************************)
\* Number of transactions submitted in one behaviour; also the largest
\* transaction timestamp (in seconds).
MaxTime == 2
\* Longest participant list a client submits.
MaxParticipants == 2
\* Number of transactions submitted to the KMS variant in one behaviour.
MaxKmsCalls == 3

(***************************************************************************)
(* Input domains.                                                           *)
(***************************************************************************)
\* Ledger keys in the order a range query returns them: a certificate hash
\* and the key seeded by InitLedger.
Keys == <<"H1", "certificate_hash">>
KeySet == {Keys[i] : i \in 1..Len(Keys)}
EditionHashes == {"E1", "E2"}
\* The only owner identifier InitLedger stores.
SeedOwner == "hash(kms_key_id)"
\* Key identifiers in ascending string order (the order Array.prototype.sort
\* gives them).
KeyOrder == <<SeedOwner, "k1", "k2">>
\* The identifiers of the two parties that trade certificates.
KeyIds == {"k1", "k2"}
Roles == {"buyer", "seller", "owner", "notary"}
Payloads == {"d1", "d2"}
\* The payload of the submitted transactions; signatures over the other
\* payload are signatures over tampered or stale data.
SubmittedPayload == "d1"
OwnerNames == {"o1", "o2"}

NoPem == [kind |-> "none"]
\* PEM text of the public key of key pair k. escaped: the line breaks are the
\* two characters backslash-n instead of a newline.
Pem(k, escaped) == [kind |-> "pem", key |-> k, escaped |-> escaped]
\* Base64 signature produced with the private key of key pair k over data d.
Sign(k, d) == [signer |-> k, data |-> d]

(***************************************************************************)
(* Values.                                                                  *)
(***************************************************************************)
\* World-state values. A value is the JSON text stored under a key, kept as
\* the structure it encodes plus the order in which the object keys were
\* written ("insertion": JSON.stringify, "sorted": stringify(sortKeysRecursive)).
Absent == [shape |-> "absent"]
Owner(k) == [id |-> k]
Edition(id, owners, timestamp) == [id |-> id, owners |-> owners, timestamp |-> timestamp]
Certificate(id, editions) == [id |-> id, editions |-> editions]
\* A JSON array holding one certificate: what CreateAsset writes.
ArrayValue(cert, keys) == [shape |-> "array", cert |-> cert, keys |-> keys]
\* A JSON object holding a certificate with a docType: what InitLedger writes.
ObjectValue(cert, owner) ==
    [shape |-> "object", cert |-> cert, docType |-> "certificate", Owner |-> owner]
\* The asset object UpdateAsset writes.
AssetValue(id, color, size, owner, appraisedValue) ==
    [shape |-> "asset", ID |-> id, Color |-> color, Size |-> size,
     Owner |-> owner, AppraisedValue |-> appraisedValue]
Undefined == "undefined"

\* new Date(seconds * 1000).toISOString(): the instant in milliseconds.
ToISOString(seconds) == [iso |-> seconds * 1000]
NowLiteral == [text |-> "now()"]

\* Responses of a transaction.
NoResp == [status |-> "none"]
NoReq == [fn |-> "none"]
Ok(v) == [status |-> "ok", error |-> "none", name |-> "none", value |-> v]
Err(kind, name) == [status |-> "error", error |-> kind, name |-> name, value |-> Absent]
Outcome(state, response) == [state |-> state, resp |-> response]

\* JSON.parse of an argument: the text either encodes a value or is not JSON.
Json(v) == [parses |-> TRUE, value |-> v]
NotJson == [parses |-> FALSE]

(***************************************************************************)
(* Array helpers of CreateAsset.                                            *)
(***************************************************************************)
Rank(k) == CHOOSE i \in 1..Len(KeyOrder) : KeyOrder[i] = k

RECURSIVE Insert(_, _)
Insert(s, k) ==
    IF s = <<>> THEN <<k>>
    ELSE IF Rank(k) < Rank(Head(s)) THEN <<k>> \o s
    ELSE <<Head(s)>> \o Insert(Tail(s), k)

\* Array.prototype.sort() on key identifiers: ascending, duplicates kept.
RECURSIVE Sort(_)
Sort(s) == IF s = <<>> THEN <<>> ELSE Insert(Sort(SubSeq(s, 1, Len(s) - 1)), s[Len(s)])

KeyIdsOf(ps) == [i \in 1..Len(ps) |-> ps[i].kms_key_id]
IsBuyerOrOwner(p) == p.type = "buyer" \/ p.type = "owner"
IsSeller(p) == p.type = "seller"

\* participants.forEach(p => p.public_key_pem.replace(/\\n/g, '\n'))
Unescape(p) ==
    IF p.public_key_pem.kind = "pem"
    THEN [p EXCEPT !.public_key_pem.escaped = FALSE]
    ELSE p
Normalise(ps) == [i \in 1..Len(ps) |-> Unescape(ps[i])]

\* Variant: every participant becomes an owner.
CurrentOwnersEveryone(participants) == Sort(KeyIdsOf(participants))
\* Variant: the owner role is forgotten.
CurrentOwnersBuyers(participants) ==
    Sort(KeyIdsOf(SelectSeq(participants, LAMBDA p : p.type = "buyer")))

\* Variant: the identifiers stay in submission order.
CurrentOwnersUnsorted(participants) == KeyIdsOf(SelectSeq(participants, IsBuyerOrOwner))

\* currentOwners: sorted key identifiers of the buyer and owner participants.
CurrentOwners(participants) == Sort(KeyIdsOf(SelectSeq(participants, IsBuyerOrOwner)))
\* sellers: sorted key identifiers of the seller participants.
Sellers(participants) == Sort(KeyIdsOf(SelectSeq(participants, IsSeller)))
\* latestOwners: sorted owner identifiers of the last edition of the chain.
LatestEdition(cert) == cert.editions[Len(cert.editions)]
LatestOwners(cert) ==
    LET o == LatestEdition(cert).owners IN Sort([i \in 1..Len(o) |-> o[i].id])
\* JSON.stringify(latestOwners) !== JSON.stringify(sellers) is the negation.
OwnersMatch(latestOwners, sellers) == latestOwners = sellers

(***************************************************************************)
(* Signature verification.                                                  *)
(***************************************************************************)
\* crypto.createVerify('sha256').verify(pem, signature): "true" / "false",
\* or "throws" when the PEM text cannot be read as a key.
verifySignature(signature, publicKeyPem, transactionData) ==
    IF publicKeyPem.escaped THEN "throws"
    ELSE IF signature.signer = publicKeyPem.key /\ signature.data = transactionData
         THEN "true" ELSE "false"

HasPem(p) == p.public_key_pem.kind = "pem"
Verified(p, transactionData) ==
    HasPem(p) /\ verifySignature(p.signature, p.public_key_pem, transactionData) = "true"

\* Indices of the participants whose callback rejects, split by the moment the
\* rejection reaches Promise.all: a missing PEM throws before the first await.
MissingPem(ps) == {i \in 1..Len(ps) : ~HasPem(ps[i])}
FailedSignature(ps, transactionData) ==
    {i \in 1..Len(ps) : HasPem(ps[i]) /\ ~Verified(ps[i], transactionData)}
Min(S) == CHOOSE i \in S : \A j \in S : i <= j

\* Variant: the verification callbacks are started but never awaited.
VerifyNotAwaited(ps, transactionData) == NoResp

\* Variant: a participant without a public key is skipped.
VerifySkipMissing(ps, transactionData) ==
    LET failed == FailedSignature(ps, transactionData)
    IN  IF failed # {}
        THEN Err("SignatureVerificationFailed", ps[Min(failed)].kms_key_id)
        ELSE NoResp

\* Variant: the first participant of the list that fails decides the error,
\* whatever the failure.
VerifyInListOrder(ps, transactionData) ==
    LET bad == MissingPem(ps) \cup FailedSignature(ps, transactionData)
    IN  IF bad = {} THEN NoResp
        ELSE IF Min(bad) \in MissingPem(ps)
             THEN Err("MissingPublicKey", ps[Min(bad)].kms_key_id)
             ELSE Err("SignatureVerificationFailed", ps[Min(bad)].kms_key_id)

\* Variant: a signature failure is reported against the head of the list.
VerifyBlameFirst(ps, transactionData) ==
    LET missing == MissingPem(ps)
    IN  IF missing # {} THEN Err("MissingPublicKey", ps[Min(missing)].kms_key_id)
        ELSE IF FailedSignature(ps, transactionData) # {}
             THEN Err("SignatureVerificationFailed", ps[1].kms_key_id)
             ELSE NoResp

\* await Promise.all(participants.map(...)): "none" when every callback
\* resolves, otherwise the error of the first rejection Promise.all receives.
VerifyAll(ps, transactionData) ==
    LET missing == MissingPem(ps)
        failed == FailedSignature(ps, transactionData)
    IN IF missing # {}
       THEN Err("MissingPublicKey", ps[Min(missing)].kms_key_id)
       ELSE IF failed # {}
       THEN LET p == ps[Min(failed)] IN
            IF verifySignature(p.signature, p.public_key_pem, transactionData) = "throws"
            THEN Err("KeyError", p.kms_key_id)
            ELSE Err("SignatureVerificationFailed", p.kms_key_id)
       ELSE NoResp

(***************************************************************************)
(* The ledger stub.                                                         *)
(***************************************************************************)
\* Variant: the value is written under the key InitLedger uses.
PutStateSeedKey(state, key, value) == [state EXCEPT !["certificate_hash"] = value]

GetState(state, key) == state[key]
PutState(state, key, value) == [state EXCEPT ![key] = value]
DeleteState(state, key) == [state EXCEPT ![key] = Absent]

(***************************************************************************)
(* Contract methods, as functions from the world state and the arguments    *)
(* to the new world state and the response.                                 *)
(***************************************************************************)
SeedCertificate ==
    Certificate("certificate_hash",
                <<Edition("certificate_edition_hash", <<Owner(SeedOwner)>>, NowLiteral)>>)

InitLedgerCall(state) ==
    Outcome(PutState(state, SeedCertificate.id, ObjectValue(SeedCertificate, Undefined)),
            Ok(Absent))

\* Variant: every edition is stamped with the epoch.
NewEditionEpoch(certificateEditionHash, currentOwners, txTimestamp) ==
    Edition(certificateEditionHash,
            [i \in 1..Len(currentOwners) |-> Owner(currentOwners[i])],
            ToISOString(0))

\* newEdition of CreateAsset.
NewEdition(certificateEditionHash, currentOwners, txTimestamp) ==
    Edition(certificateEditionHash,
            [i \in 1..Len(currentOwners) |-> Owner(currentOwners[i])],
            ToISOString(txTimestamp))

\* Variant: the stored chain is not carried over.
PushEditionFresh(existsBytes, certificateHash, newEdition) ==
    ArrayValue(Certificate(certificateHash, <<newEdition>>), "insertion")

\* certificates after the push: the parsed chain with the edition appended,
\* or a new array with one certificate.
PushEdition(existsBytes, certificateHash, newEdition) ==
    IF existsBytes.shape = "absent"
    THEN ArrayValue(Certificate(certificateHash, <<newEdition>>), "insertion")
    ELSE [existsBytes EXCEPT !.cert.editions = Append(@, newEdition)]

\* Variant: the latest owners are compared with the new owners.
PreviousOwnerCheckBuyers(existsBytes, participants) ==
    OwnersMatch(LatestOwners(existsBytes.cert), CurrentOwners(participants))

\* The previous-owner check; only evaluated when the certificate exists.
PreviousOwnerCheck(existsBytes, participants) ==
    OwnersMatch(LatestOwners(existsBytes.cert), Sellers(participants))

CreateAssetCall(state, certificateHash, certificateEditionHash, participantsJSON, transactionData, txTimestamp) ==
    IF ~participantsJSON.parses THEN Outcome(state, Err("SyntaxError", "none"))
    ELSE
    LET participants == Normalise(participantsJSON.value)
        existsBytes == GetState(state, certificateHash)
        certificateExists == existsBytes.shape # "absent"
        currentOwners == CurrentOwners(participants)
    IN  IF certificateExists /\ existsBytes.shape # "array"
        THEN \* certificates[0] is undefined
             Outcome(state, Err("TypeError", "none"))
        ELSE IF certificateExists /\ ~PreviousOwnerCheck(existsBytes, participants)
        THEN Outcome(state, Err("PreviousOwnerMismatch", "none"))
        ELSE
        LET failure == VerifyAll(participants, transactionData) IN
        IF failure.status = "error" THEN Outcome(state, failure)
        ELSE
        LET newEdition == NewEdition(certificateEditionHash, currentOwners, txTimestamp)
            certificates == PushEdition(existsBytes, certificateHash, newEdition)
        IN  Outcome(PutState(state, certificateHash, certificates), Ok(certificates))

AssetExists(state, id) == GetState(state, id).shape # "absent"

ReadAssetCall(state, id) ==
    IF ~AssetExists(state, id) THEN Outcome(state, Err("NotFound", id))
    ELSE Outcome(state, Ok(GetState(state, id)))

UpdateAssetCall(state, id, color, size, owner, appraisedValue) ==
    IF ~AssetExists(state, id) THEN Outcome(state, Err("NotFound", id))
    ELSE Outcome(PutState(state, id, AssetValue(id, color, size, owner, appraisedValue)),
                 Ok(Absent))

DeleteAssetCall(state, id) ==
    IF ~AssetExists(state, id) THEN Outcome(state, Err("NotFound", id))
    ELSE Outcome(DeleteState(state, id), Ok(Absent))

\* asset.Owner = newOwner; stringify(sortKeysRecursive(asset)). On an array
\* the Owner property is not an element and is not written.
SetOwner(asset, newOwner) ==
    IF asset.shape = "array" THEN [asset EXCEPT !.keys = "sorted"]
    ELSE [asset EXCEPT !.Owner = newOwner]
OldOwner(asset) == IF asset.shape = "array" THEN Undefined ELSE asset.Owner

TransferAssetCall(state, id, newOwner) ==
    IF ~AssetExists(state, id) THEN Outcome(state, Err("NotFound", id))
    ELSE LET asset == GetState(state, id) IN
         Outcome(PutState(state, id, SetOwner(asset, newOwner)),
                 Ok([shape |-> "string", text |-> OldOwner(asset)]))

\* Bytes under a key that are not JSON text, and the JavaScript string such
\* bytes are read as.
RawValue(text) == [shape |-> "raw", text |-> text]
StringValue(text) == [shape |-> "string", text |-> text]
\* try { record = JSON.parse(strValue) } catch { record = strValue }
Record(value) == IF value.shape = "raw" THEN StringValue(value.text) ELSE value

\* The records of a range query over all keys, in key order.
RECURSIVE RangeFrom(_, _)
RangeFrom(state, i) ==
    IF i > Len(Keys) THEN <<>>
    ELSE IF AssetExists(state, Keys[i])
         THEN <<Record(GetState(state, Keys[i]))>> \o RangeFrom(state, i + 1)
         ELSE RangeFrom(state, i + 1)

\* Variant: an entry that does not parse aborts the listing.
GetAllAssetsStrict(state) ==
    IF \E k \in KeySet : state[k].shape = "raw"
    THEN Outcome(state, Err("SyntaxError", "none"))
    ELSE Outcome(state, Ok([shape |-> "list", items |-> RangeFrom(state, 1)]))

GetAllAssetsCall(state) ==
    Outcome(state, Ok([shape |-> "list", items |-> RangeFrom(state, 1)]))

(***************************************************************************)
(* The stored encoding. A JSON text is kept as its members in the order     *)
(* they are written; an array is the sequence of its elements.              *)
(***************************************************************************)
Member(key, value) == [key |-> key, value |-> value]

\* Variant: the owners are written as an empty array.
StringifyEditionOwnerless(e) ==
    <<Member("id", e.id), Member("owners", <<>>), Member("timestamp", e.timestamp)>>

\* JSON.stringify: members in insertion order; a member whose value is
\* undefined is left out.
StringifyOwner(o) == IF o.id = Undefined THEN <<>> ELSE <<Member("id", o.id)>>
StringifyEdition(e) ==
    <<Member("id", e.id),
      Member("owners", [i \in 1..Len(e.owners) |-> StringifyOwner(e.owners[i])]),
      Member("timestamp", e.timestamp)>>
StringifyCertificate(c) ==
    <<Member("id", c.id),
      Member("editions", [i \in 1..Len(c.editions) |-> StringifyEdition(c.editions[i])])>>
Stringify(certificates) ==
    [i \in 1..Len(certificates) |-> StringifyCertificate(certificates[i])]

\* JSON.parse: a property that the text does not hold reads as undefined.
HasMember(obj, key) == \E i \in 1..Len(obj) : obj[i].key = key
Get(obj, key) ==
    IF HasMember(obj, key)
    THEN obj[CHOOSE i \in 1..Len(obj) : obj[i].key = key].value
    ELSE Undefined
ParseOwner(t) == Owner(Get(t, "id"))
ParseEdition(t) ==
    LET owners == Get(t, "owners")
    IN  Edition(Get(t, "id"), [i \in 1..Len(owners) |-> ParseOwner(owners[i])],
                Get(t, "timestamp"))
ParseCertificate(t) ==
    LET editions == Get(t, "editions")
    IN  Certificate(Get(t, "id"), [i \in 1..Len(editions) |-> ParseEdition(editions[i])])
JSONParse(text) == [i \in 1..Len(text) |-> ParseCertificate(text[i])]

(***************************************************************************)
(* Transaction proposals.                                                   *)
(***************************************************************************)
Participant(kid, type, pem, signature) ==
    [kms_key_id |-> kid, type |-> type, public_key_pem |-> pem, signature |-> signature]

\* What a participant record claiming identifier k can carry: the public key
\* of the key pair h that made the signature, over either payload, or a
\* signature of k and no public key.
Credentials(k) ==
    {[pem |-> Pem(h, TRUE), sig |-> Sign(h, d)] : h \in KeyIds, d \in Payloads}
        \cup {[pem |-> NoPem, sig |-> Sign(k, SubmittedPayload)]}

\* Every identifier and role with every credential, and the seeded owner
\* selling under its own key.
Participants ==
    UNION {{Participant(k, r, c.pem, c.sig) : r \in Roles, c \in Credentials(k)} :
           k \in KeyIds}
    \cup {Participant(SeedOwner, "seller", Pem(SeedOwner, TRUE),
                      Sign(SeedOwner, SubmittedPayload))}

ParticipantLists == UNION {[1..n -> Participants] : n \in 0..MaxParticipants}
ParticipantsJSON == {NotJson} \cup {Json(ps) : ps \in ParticipantLists}

Proposals(t) ==
    {[fn |-> "InitLedger", txTimestamp |-> t]}
    \cup {[fn |-> "CreateAsset", certificateHash |-> h, certificateEditionHash |-> e,
           participantsJSON |-> pj, transactionData |-> SubmittedPayload,
           txTimestamp |-> t] :
          h \in KeySet, e \in EditionHashes, pj \in ParticipantsJSON}
    \cup {[fn |-> "ReadAsset", id |-> k, txTimestamp |-> t] : k \in KeySet}
    \cup {[fn |-> "UpdateAsset", id |-> k, color |-> "blue", size |-> "5", owner |-> o,
           appraisedValue |-> "300", txTimestamp |-> t] : k \in KeySet, o \in OwnerNames}
    \cup {[fn |-> "DeleteAsset", id |-> k, txTimestamp |-> t] : k \in KeySet}
    \cup {[fn |-> "TransferAsset", id |-> k, newOwner |-> o, txTimestamp |-> t] :
          k \in KeySet, o \in OwnerNames}
    \cup {[fn |-> "GetAllAssets", txTimestamp |-> t]}

(***************************************************************************)
(* The state machine.                                                       *)
(***************************************************************************)
\* The clients of SpecConc and the transaction of a client that has none.
Clients == {"A", "B"}
NoTx == [stage |-> "none"]

Init ==
    /\ ledger = [k \in KeySet |-> Absent]
    /\ clock = 0
    /\ pc = "idle"
    /\ req = NoReq
    /\ resp = NoResp
    /\ pre = [k \in KeySet |-> Absent]
    /\ version = [k \in KeySet |-> 0]
    /\ tx = [c \in Clients |-> NoTx]

\* A client submits a proposal; the ledger stamps it with the next timestamp.
Submit ==
    /\ pc = "idle"
    /\ clock < MaxTime
    /\ \E r \in Proposals(clock + 1) : req' = r
    /\ clock' = clock + 1
    /\ pc' = "pending"
    /\ UNCHANGED <<ledger, resp, pre, version, tx>>

\* The pending transaction runs to completion: out is its outcome.
Run(fn, out) ==
    /\ pc = "pending"
    /\ req.fn = fn
    /\ ledger' = out.state
    /\ resp' = out.resp
    /\ pre' = ledger
    /\ pc' = "done"
    /\ UNCHANGED <<clock, req, version, tx>>

InitLedger == pc = "pending" /\ req.fn = "InitLedger" /\ Run("InitLedger", InitLedgerCall(ledger))

CreateAsset ==
    /\ pc = "pending" /\ req.fn = "CreateAsset"
    /\ Run("CreateAsset",
           CreateAssetCall(ledger, req.certificateHash, req.certificateEditionHash,
                           req.participantsJSON, req.transactionData, req.txTimestamp))

ReadAsset ==
    /\ pc = "pending" /\ req.fn = "ReadAsset"
    /\ Run("ReadAsset", ReadAssetCall(ledger, req.id))

UpdateAsset ==
    /\ pc = "pending" /\ req.fn = "UpdateAsset"
    /\ Run("UpdateAsset",
           UpdateAssetCall(ledger, req.id, req.color, req.size, req.owner, req.appraisedValue))

DeleteAsset ==
    /\ pc = "pending" /\ req.fn = "DeleteAsset"
    /\ Run("DeleteAsset", DeleteAssetCall(ledger, req.id))

TransferAsset ==
    /\ pc = "pending" /\ req.fn = "TransferAsset"
    /\ Run("TransferAsset", TransferAssetCall(ledger, req.id, req.newOwner))

GetAllAssets ==
    /\ pc = "pending" /\ req.fn = "GetAllAssets"
    /\ Run("GetAllAssets", GetAllAssetsCall(ledger))

\* The response reaches the client.
Return ==
    /\ pc = "done"
    /\ pc' = "idle"
    /\ req' = NoReq
    /\ resp' = NoResp
    /\ pre' = ledger
    /\ UNCHANGED <<ledger, clock, version, tx>>

Next ==
    \/ Submit
    \/ InitLedger
    \/ CreateAsset
    \/ ReadAsset
    \/ UpdateAsset
    \/ DeleteAsset
    \/ TransferAsset
    \/ GetAllAssets
    \/ Return

Spec == Init /\ [][Next]_vars

(***************************************************************************)
(* Overlapping transactions. The contract runs against the committed world  *)
(* state: getState reads it, putState adds to the write set of the           *)
(* transaction. The ledger commits a write set only if the key the          *)
(* transaction read still has the version it read; otherwise the            *)
(* transaction is invalid and its client gets an error.                     *)
(***************************************************************************)
\* Participants that sign the submitted payload with their own key.
HonestParticipants ==
    {Participant(k, r, Pem(k, TRUE), Sign(k, SubmittedPayload)) :
        k \in KeyIds, r \in {"buyer", "seller", "owner"}}
HonestLists == UNION {[1..n -> HonestParticipants] : n \in 1..MaxParticipants}
ConcProposals(t) ==
    {[fn |-> "CreateAsset", certificateHash |-> h, certificateEditionHash |-> e,
      participantsJSON |-> Json(ps), transactionData |-> SubmittedPayload,
      txTimestamp |-> t] :
     h \in KeySet, e \in EditionHashes, ps \in HonestLists}

\* The CreateAsset of request r on world state `state`.
CreateAssetOf(state, r) ==
    CreateAssetCall(state, r.certificateHash, r.certificateEditionHash,
                    r.participantsJSON, r.transactionData, r.txTimestamp)

\* Client c submits a CreateAsset proposal.
Propose(c) ==
    /\ tx[c].stage = "none"
    /\ \E r \in ConcProposals(clock + 1) : tx' = [tx EXCEPT ![c] = [stage |-> "proposed", req |-> r]]
    /\ clock' = clock + 1
    /\ UNCHANGED <<ledger, pc, req, resp, pre, version>>

\* CreateAsset runs for client c: a throw rejects the transaction, otherwise
\* the version it read and the value it put are recorded.
Simulate(c) ==
    /\ tx[c].stage = "proposed"
    /\ LET r == tx[c].req
           out == CreateAssetOf(ledger, r)
       IN  tx' = [tx EXCEPT ![c] =
                    IF out.resp.status = "error"
                    THEN [stage |-> "rejected", req |-> r, resp |-> out.resp]
                    ELSE [stage |-> "endorsed", req |-> r, resp |-> out.resp,
                          readVersion |-> version[r.certificateHash],
                          write |-> GetState(out.state, r.certificateHash)]]
    /\ UNCHANGED <<ledger, clock, pc, req, resp, pre, version>>

\* The write set of client c is committed, or invalidated by a newer version.
Commit(c) ==
    /\ tx[c].stage = "endorsed"
    /\ LET h == tx[c].req.certificateHash IN
       IF version[h] = tx[c].readVersion
       THEN /\ ledger' = PutState(ledger, h, tx[c].write)
            /\ version' = [version EXCEPT ![h] = @ + 1]
            /\ tx' = [tx EXCEPT ![c].stage = "committed"]
       ELSE /\ tx' = [tx EXCEPT ![c].stage = "invalid"]
            /\ UNCHANGED <<ledger, version>>
    /\ UNCHANGED <<clock, pc, req, resp, pre>>

NextConc == \E c \in Clients : Propose(c) \/ Simulate(c) \/ Commit(c)

SpecConc == Init /\ [][NextConc]_vars

(***************************************************************************)
(* The KMS variant of the contract: CreateAsset fetches each participant's  *)
(* public key from the key management service under the name built from     *)
(* kms_key_id, and compares the latest owners with the new owners.          *)
(***************************************************************************)
\* The key names the key ring holds.
KmsKeys == KeyIds

\* verifySignatureWithKMS: "throws" when getPublicKey fails (the service or
\* the credentials of keyFile are not usable, or the ring has no such key).
verifySignatureWithKMS(signature, kmsKeyName, transactionData, available) ==
    IF ~available \/ kmsKeyName \notin KmsKeys THEN "throws"
    ELSE IF signature.signer = kmsKeyName /\ signature.data = transactionData
         THEN "true" ELSE "false"

FailedKms(ps, transactionData, available) ==
    {i \in 1..Len(ps) :
        verifySignatureWithKMS(ps[i].signature, ps[i].kms_key_id, transactionData, available)
            # "true"}

\* await Promise.all(...): the callbacks wait for the service, so the first
\* rejection is that of whichever failing participant is answered first
\* (winner when it fails, otherwise the first failing one of the list).
VerifyAllKms(ps, transactionData, available, winner) ==
    LET failed == FailedKms(ps, transactionData, available)
    IN  IF failed = {} THEN NoResp
        ELSE LET i == IF winner \in failed THEN winner ELSE Min(failed)
                 p == ps[i]
             IN  IF verifySignatureWithKMS(p.signature, p.kms_key_id, transactionData,
                                           available) = "throws"
                 THEN Err("KmsError", p.kms_key_id)
                 ELSE Err("SignatureVerificationFailed", p.kms_key_id)

\* Variant: the latest owners are compared with the sellers.
PreviousOwnerCheckKmsSellers(existsBytes, participants) ==
    OwnersMatch(LatestOwners(existsBytes.cert), Sellers(participants))

\* The previous-owner check of the variant.
PreviousOwnerCheckKms(existsBytes, participants) ==
    OwnersMatch(LatestOwners(existsBytes.cert), CurrentOwners(participants))

\* stringify(sortKeysRecursive(certificates)): same structure, keys sorted.
SortKeysRecursive(certificates) == [certificates EXCEPT !.keys = "sorted"]

CreateAssetKmsCall(state, certificateHash, certificateEditionHash, participantsJSON, transactionData, keyFileJSON, txTimestamp, available, winner) ==
    IF ~keyFileJSON.parses \/ ~participantsJSON.parses
    THEN Outcome(state, Err("SyntaxError", "none"))
    ELSE
    LET participants == participantsJSON.value
        existsBytes == GetState(state, certificateHash)
        certificateExists == existsBytes.shape # "absent"
        currentOwners == CurrentOwners(participants)
    IN  IF certificateExists /\ existsBytes.shape # "array"
        THEN Outcome(state, Err("TypeError", "none"))
        ELSE IF certificateExists /\ ~PreviousOwnerCheckKms(existsBytes, participants)
        THEN Outcome(state, Err("PreviousOwnerMismatch", "none"))
        ELSE
        LET failure == VerifyAllKms(participants, transactionData, available, winner) IN
        IF failure.status = "error" THEN Outcome(state, failure)
        ELSE
        LET newEdition == NewEdition(certificateEditionHash, currentOwners, txTimestamp)
            certificates == PushEdition(existsBytes, certificateHash, newEdition)
        IN  Outcome(PutState(state, certificateHash, SortKeysRecursive(certificates)),
                    Ok(certificates))

\* Participants of the variant carry no key material: an identifier, a role
\* and a signature over the submitted payload by one of the keys of the ring.
KmsParticipants ==
    {Participant(k, r, NoPem, Sign(h, SubmittedPayload)) :
        k \in KeyIds, r \in {"buyer", "seller", "owner"}, h \in KeyIds}
KmsLists == UNION {[1..n -> KmsParticipants] : n \in 0..MaxParticipants}
KeyFile == [type |-> "service_account"]
KmsProposals(t) ==
    {[fn |-> "CreateAssetKms", certificateHash |-> h, certificateEditionHash |-> e,
      participantsJSON |-> Json(ps), transactionData |-> SubmittedPayload,
      keyFileJSON |-> kf, txTimestamp |-> t] :
     h \in KeySet, e \in EditionHashes, ps \in KmsLists, kf \in {Json(KeyFile), NotJson}}

SubmitKms ==
    /\ pc = "idle"
    /\ clock < MaxKmsCalls
    /\ \E r \in KmsProposals(clock + 1) : req' = r
    /\ clock' = clock + 1
    /\ pc' = "pending"
    /\ UNCHANGED <<ledger, resp, pre, version, tx>>

\* The variant's CreateAsset runs; the service answers or not, and answers
\* one of the participants first.
CreateAssetKms ==
    /\ pc = "pending" /\ req.fn = "CreateAssetKms"
    /\ \E available \in BOOLEAN, winner \in 1..MaxParticipants :
          Run("CreateAssetKms",
              CreateAssetKmsCall(ledger, req.certificateHash, req.certificateEditionHash,
                                 req.participantsJSON, req.transactionData,
                                 req.keyFileJSON, req.txTimestamp, available, winner))

NextKms == SubmitKms \/ CreateAssetKms \/ Return

SpecKms == Init /\ [][NextKms]_vars

(***************************************************************************)
(* Vocabulary of the properties.                                            *)
(***************************************************************************)
Done(fn) == pc = "done" /\ req.fn = fn
Rejected == resp.status = "error"
Accepted == resp.status = "ok"
\* The participant list of a finished CreateAsset whose participantsJSON parsed.
Submitted == req.participantsJSON.value
ParsedCreate == Done("CreateAsset") /\ req.participantsJSON.parses
\* The key of the key ring that a key identifier names.
KeyOf(kid) == kid
\* The signature of participant p is a signature over data that verifies
\* under the public key p carries.
SignatureVerifies(p, data) ==
    /\ p.public_key_pem.kind = "pem"
    /\ p.signature.signer = p.public_key_pem.key
    /\ p.signature.data = data
AllSignaturesVerify ==
    \A i \in 1..Len(Submitted) : SignatureVerifies(Submitted[i], req.transactionData)
IdsWithRole(ps, roles) == {ps[i].kms_key_id : i \in {j \in 1..Len(ps) : ps[j].type \in roles}}
OwnerIds(edition) == {edition.owners[i].id : i \in 1..Len(edition.owners)}
\* The editions a stored value holds (none when it holds no certificate).
HasChain(v) == v.shape \in {"array", "object"}
EditionsOf(v) == IF HasChain(v) THEN v.cert.editions ELSE <<>>
IsPrefix(s, t) == Len(s) <= Len(t) /\ SubSeq(t, 1, Len(s)) = s
StoredChain(v) == v.shape = "array"
Occurrences(seq, x) == Cardinality({i \in 1..Len(seq) : seq[i] = x})
SameIdentifiers(s, t) ==
    Len(s) = Len(t) /\ \A i \in 1..Len(s) : Occurrences(s, s[i]) = Occurrences(t, s[i])
RoleIds(ps, roles) ==
    LET sel == SelectSeq(ps, LAMBDA p : p.type \in roles)
    IN  [i \in 1..Len(sel) |-> sel[i].kms_key_id]
OwnerList(edition) == [i \in 1..Len(edition.owners) |-> edition.owners[i].id]
Target == req.certificateHash

(***************************************************************************)
(* Properties of CreateAsset, stated on the state in which a transaction    *)
(* has run (pc = "done"): req holds its arguments, pre the world state      *)
(* before it, ledger the world state after it and resp its response.        *)
(***************************************************************************)

\* C1: all-or-nothing signatures. If some participant of a CreateAsset call
\* (whatever its role) carries a signature that does not verify against
\* transactionData, the call is rejected and every key of the ledger holds
\* the value it held before the call.
AllOrNothingSignatures ==
    (ParsedCreate /\ ~AllSignaturesVerify) => (Rejected /\ ledger = pre)

\* A transfer on a stored chain with one valid and one invalid signer that is
\* rejected for the signature.
AllOrNothingWitness ==
    /\ ParsedCreate
    /\ StoredChain(pre[Target])
    /\ Len(Submitted) = 2
    /\ \E i, j \in 1..2 :
          /\ SignatureVerifies(Submitted[i], req.transactionData)
          /\ ~SignatureVerifies(Submitted[j], req.transactionData)
          /\ Submitted[j].public_key_pem.kind = "pem"
    /\ resp.error = "SignatureVerificationFailed"
    /\ ledger = pre

AppendOnlyCreateAsset ==
    (Done("CreateAsset") /\ Accepted)
        => /\ StoredChain(ledger[Target])
           /\ Len(EditionsOf(ledger[Target])) = Len(EditionsOf(pre[Target])) + 1
           /\ IsPrefix(EditionsOf(pre[Target]), EditionsOf(ledger[Target]))

\* A successful CreateAsset on a chain that already held an edition.
AppendOnlyWitness ==
    /\ Done("CreateAsset")
    /\ Accepted
    /\ Len(EditionsOf(pre[Target])) >= 1
    /\ Len(EditionsOf(ledger[Target])) = Len(EditionsOf(pre[Target])) + 1

\* C4: authorization of a transfer. An edition is appended to a stored chain
\* only by a transaction in which every owner of the preceding edition signed
\* the payload with the key its key identifier names.
AuthorizedTransfer ==
    (ParsedCreate /\ Accepted /\ StoredChain(pre[Target]))
        => \A o \in OwnerIds(LatestEdition(pre[Target].cert)) :
              \E i \in 1..Len(Submitted) :
                  /\ Submitted[i].kms_key_id = o
                  /\ Submitted[i].signature = Sign(KeyOf(o), req.transactionData)

\* C5: no write on rejection. A CreateAsset rejected for a reason other than
\* a bad signature leaves every key as it was, and the ledger changes only
\* when the call succeeded, that is after the previous-owner check passed and
\* every participant was verified.
NoWriteOnRejection ==
    Done("CreateAsset")
        => /\ (Rejected /\ resp.error # "SignatureVerificationFailed") => ledger = pre
           /\ ledger # pre
                => /\ Accepted
                   /\ AllSignaturesVerify
                   /\ pre[Target].shape # "absent"
                        => SameIdentifiers(RoleIds(Submitted, {"seller"}),
                                           OwnerList(LatestEdition(pre[Target].cert)))

\* Each of the three other rejections happens and writes nothing.
NoWriteWitness ==
    /\ Done("CreateAsset")
    /\ Rejected
    /\ resp.error = "MissingPublicKey"
    /\ StoredChain(pre[Target])
    /\ ledger = pre

ImplicitCreation ==
    (ParsedCreate /\ pre[Target].shape = "absent" /\ AllSignaturesVerify)
        => /\ Accepted
           /\ StoredChain(ledger[Target])
           /\ ledger[Target].cert.id = Target
           /\ Len(ledger[Target].cert.editions) = 1
           /\ ledger[Target].cert.editions[1].id = req.certificateEditionHash
           /\ OwnerIds(ledger[Target].cert.editions[1])
                = IdsWithRole(Submitted, {"buyer", "owner"})

\* A first edition created by a seller and an owner: no previous-owner check.
ImplicitCreationWitness ==
    /\ ParsedCreate
    /\ Accepted
    /\ pre[Target].shape = "absent"
    /\ IdsWithRole(Submitted, {"seller"}) # {}
    /\ IdsWithRole(Submitted, {"owner"}) # {}
    /\ Len(ledger[Target].cert.editions) = 1

\* C8: editions are immutable and certificates are never deleted. Over every
\* step of every operation, the editions stored under a key stay where they
\* are: the chain after the step starts with the chain before it.
EditionsImmutable ==
    [][\A k \in KeySet : IsPrefix(EditionsOf(ledger[k]), EditionsOf(ledger'[k]))]_vars

\* The finished CreateAsset, run on another world state.
CreateAssetOn(state) ==
    CreateAssetCall(state, req.certificateHash, req.certificateEditionHash,
                    req.participantsJSON, req.transactionData, req.txTimestamp)
\* Values another key may hold, and participant lists of a second transaction.
OtherValues ==
    {Absent, ObjectValue(SeedCertificate, Undefined),
     AssetValue("H1", "blue", "5", "o1", "300"),
     ArrayValue(Certificate("H1", <<Edition("E2", <<Owner("k2")>>, ToISOString(1))>>),
                "insertion")}
ProbeLists ==
    {<<>>} \cup {<<Participant(k, r, Pem(k, TRUE), Sign(k, SubmittedPayload))>> :
                 k \in KeyIds, r \in {"buyer", "seller"}}

\* C10: independence across certificates. A CreateAsset call on key H leaves
\* every other key as it was, its response and the value it leaves under H
\* are the same whatever the other keys hold, and it commutes with a
\* CreateAsset on another key.
IndependenceAcrossCertificates ==
    Done("CreateAsset")
        => /\ \A k \in KeySet \ {Target} : ledger[k] = pre[k]
           /\ \A v \in OtherValues :
                LET alone == CreateAssetOn([k \in KeySet |-> IF k = Target THEN pre[k] ELSE v])
                IN  alone.resp = resp /\ alone.state[Target] = ledger[Target]
           /\ \A k \in KeySet \ {Target}, ps \in ProbeLists :
                LET Other(state) ==
                        CreateAssetCall(state, k, "E2", Json(ps), SubmittedPayload,
                                        req.txTimestamp + 1).state
                IN  Other(ledger) = CreateAssetOn(Other(pre)).state

\* A successful CreateAsset on one key while the other key holds a chain.
IndependenceWitness ==
    /\ Done("CreateAsset")
    /\ Accepted
    /\ \E k \in KeySet \ {Target} : StoredChain(pre[k]) /\ ledger[k] = pre[k]

\* Both clients' transactions have ended, and they target the same key.
Finished(c) == tx[c].stage \in {"committed", "invalid", "rejected"}
BothFinishedOnOneKey ==
    /\ Finished("A") /\ Finished("B")
    /\ tx["A"].req.certificateHash = tx["B"].req.certificateHash
\* The world state after running the CreateAsset of first, then of second,
\* one after the other from the initial world state.
Serial(first, second) ==
    CreateAssetOf(CreateAssetOf(pre, tx[first].req).state, tx[second].req).state

\* C9: serialization per certificate. When two CreateAsset invocations on
\* the same certificateHash have both ended, the committed world state is
\* the one that running them one after the other, in one of the two orders,
\* produces.
SerializedPerCertificate ==
    BothFinishedOnOneKey => ledger \in {Serial("A", "B"), Serial("B", "A")}

(***************************************************************************)
(* Properties of the encoding and of the error reports.                     *)
(***************************************************************************)
\* The finished CreateAsset, run again from the same world state with the
\* participant list ps instead of the submitted one.
CreateAssetWith(ps) ==
    CreateAssetCall(pre, req.certificateHash, req.certificateEditionHash, Json(ps),
                    req.transactionData, req.txTimestamp)
Orders(n) == {f \in [1..n -> 1..n] : \A i, j \in 1..n : f[i] = f[j] => i = j}
\* The participant lists that differ from ps only in the order of the entries.
Reordered(ps) == {[i \in 1..Len(ps) |-> ps[f[i]]] : f \in Orders(Len(ps))}

\* C11: determinism with respect to submission order. From any world state,
\* a CreateAsset call and the same call with its participants listed in
\* another order are both accepted or both rejected, and when accepted they
\* return and store the same value, with the owners in ascending order.
DeterministicInOrder ==
    ParsedCreate
        => \A qs \in Reordered(Submitted) :
              LET other == CreateAssetWith(qs)
              IN  /\ other.resp.status = resp.status
                  /\ Accepted => (other.state = ledger /\ other.resp = resp)

\* Two new owners listed in descending order are stored in ascending order.
DeterministicWitness ==
    /\ ParsedCreate
    /\ Accepted
    /\ RoleIds(Submitted, {"buyer", "owner"}) = <<"k2", "k1">>
    /\ OwnerList(LatestEdition(ledger[Target].cert)) = <<"k1", "k2">>

\* The array CreateAsset holds in memory when it writes, the text it stores
\* and what JSON.parse makes of that text.
Certificates(v) == <<v.cert>>
Bytes(v) == Stringify(Certificates(v))
Decoded(v) == JSONParse(Bytes(v))

\* C12: round trip of the stored encoding. After a successful CreateAsset
\* the value returned is the value stored, ReadAsset returns that value, and
\* decoding it gives the structure that was encoded: one certificate with the
\* same id and the same editions in the same order, each with the same id,
\* owners and timestamp.
RoundTrip ==
    (Done("CreateAsset") /\ Accepted)
        => /\ resp.value = ledger[Target]
           /\ ReadAssetCall(ledger, Target).resp.value = ledger[Target]
           /\ Decoded(ledger[Target]) = Certificates(ledger[Target])
           /\ Len(Decoded(ledger[Target])) = 1
           /\ Decoded(ledger[Target])[1].id = Target
           /\ IsPrefix(EditionsOf(pre[Target]), Decoded(ledger[Target])[1].editions)

\* A chain of two editions, the second with two owners, written and decoded.
RoundTripWitness ==
    /\ Done("CreateAsset")
    /\ Accepted
    /\ StoredChain(pre[Target])
    /\ Len(Decoded(ledger[Target])[1].editions) = 2
    /\ Len(Decoded(ledger[Target])[1].editions[2].owners) = 2
    /\ Decoded(ledger[Target])[1].editions[2].timestamp = ToISOString(req.txTimestamp)

\* C13: owner set sorted and deduplicated. The owner list of the edition a
\* successful CreateAsset appends is strictly ascending (so each identifier
\* occurs at most once) and holds exactly the identifiers of the buyer and
\* owner participants.
OwnersSortedDeduplicated ==
    (ParsedCreate /\ Accepted)
        => LET owners == OwnerList(LatestEdition(ledger[Target].cert))
           IN  /\ \A i, j \in 1..Len(owners) : i < j => Rank(owners[i]) < Rank(owners[j])
               /\ {owners[i] : i \in 1..Len(owners)}
                    = IdsWithRole(Submitted, {"buyer", "owner"})

\* C14: an empty participant list is malformed input. A CreateAsset call
\* whose participant list is empty is rejected and writes nothing, whether
\* certificateHash holds a value or not.
EmptyListRejected ==
    (ParsedCreate /\ Submitted = <<>>) => (Rejected /\ ledger = pre)

\* The ownership check of the finished call passes or is skipped.
GatePassed ==
    \/ pre[Target].shape = "absent"
    \/ /\ StoredChain(pre[Target])
       /\ SameIdentifiers(RoleIds(Submitted, {"seller"}),
                          OwnerList(LatestEdition(pre[Target].cert)))
Keyless(ps) == {i \in 1..Len(ps) : ps[i].public_key_pem.kind = "none"}
AnySignature == {Sign(k, d) : k \in KeyIds, d \in Payloads}

\* C15: missing key material is its own error. When the ownership check
\* passes and a participant carries no public key, CreateAsset is rejected in
\* the same step with the missing-key error (not the signature error) naming
\* such a participant, nothing is written, and the outcome is the same
\* whatever signature that participant carries: it is never evaluated.
MissingKeyError ==
    (ParsedCreate /\ GatePassed /\ Keyless(Submitted) # {})
        => /\ Rejected
           /\ resp.error = "MissingPublicKey"
           /\ resp.error # "SignatureVerificationFailed"
           /\ \E i \in Keyless(Submitted) : resp.name = Submitted[i].kms_key_id
           /\ ledger = pre
           /\ \A i \in Keyless(Submitted), sig \in AnySignature :
                 CreateAssetWith([Submitted EXCEPT ![i].signature = sig])
                    = Outcome(ledger, resp)

\* A participant with a bad signature listed before one without a key: the
\* call is rejected for the missing key.
MissingKeyWitness ==
    /\ ParsedCreate
    /\ GatePassed
    /\ Len(Submitted) = 2
    /\ Submitted[1].public_key_pem.kind = "pem"
    /\ ~SignatureVerifies(Submitted[1], req.transactionData)
    /\ Keyless(Submitted) = {2}
    /\ resp.error = "MissingPublicKey"
    /\ resp.name = Submitted[2].kms_key_id
    /\ ledger = pre

\* The tampered transfer: the chain is owned by k1, seller k1 carries its key
\* with a signature that does not verify, buyer k2 signs validly.
TamperedTransfer ==
    /\ StoredChain(pre[Target])
    /\ OwnerList(LatestEdition(pre[Target].cert)) = <<"k1">>
    /\ Len(Submitted) = 2
    /\ \E i, j \in 1..2 :
          /\ Submitted[i].kms_key_id = "k1" /\ Submitted[i].type = "seller"
          /\ Submitted[i].public_key_pem.kind = "pem"
          /\ ~SignatureVerifies(Submitted[i], req.transactionData)
          /\ Submitted[j].kms_key_id = "k2" /\ Submitted[j].type = "buyer"
          /\ SignatureVerifies(Submitted[j], req.transactionData)

\* C16: a signature rejection names a real failing signer. When CreateAsset
\* is rejected with the signature-verification error, the identifier in the
\* error is the kms_key_id of a participant of the call whose signature does
\* not verify against transactionData, and nothing is written; the tampered
\* transfer is rejected with that error naming k1.
SignatureRejectionNamesSigner ==
    /\ (Done("CreateAsset") /\ resp.error = "SignatureVerificationFailed")
            => /\ \E i \in 1..Len(Submitted) :
                     /\ Submitted[i].kms_key_id = resp.name
                     /\ ~SignatureVerifies(Submitted[i], req.transactionData)
               /\ ledger = pre
    /\ (ParsedCreate /\ TamperedTransfer)
            => /\ resp = Err("SignatureVerificationFailed", "k1")
               /\ EditionsOf(ledger[Target]) = EditionsOf(pre[Target])

\* The tampered transfer with the valid buyer listed first.
SignatureRejectionWitness ==
    /\ ParsedCreate
    /\ TamperedTransfer
    /\ Submitted[1].kms_key_id = "k2"
    /\ resp = Err("SignatureVerificationFailed", "k1")
    /\ ledger = pre

\* The timestamps of a chain never decrease along the sequence.
NonDecreasing(editions) ==
    \A i, j \in 1..Len(editions) :
        i < j => editions[i].timestamp.iso <= editions[j].timestamp.iso

\* C17: ledger-assigned timestamps. The edition a successful CreateAsset
\* appends carries the transaction timestamp of that transaction, whatever
\* the arguments of the call are; with the ledger handing out increasing
\* transaction timestamps, the timestamps of the editions CreateAsset
\* appended to a certificate are non-decreasing in sequence order.
LedgerTimestamps ==
    /\ (Done("CreateAsset") /\ Accepted)
            => /\ LatestEdition(ledger[Target].cert).timestamp = ToISOString(req.txTimestamp)
               /\ \A e \in EditionHashes, ps \in ProbeLists, d \in Payloads :
                     LET other == CreateAssetCall(pre, Target, e, Json(ps), d, req.txTimestamp)
                     IN  other.resp.status = "ok"
                            => LatestEdition(other.state[Target].cert).timestamp
                                    = LatestEdition(ledger[Target].cert).timestamp
    /\ \A k \in KeySet : StoredChain(ledger[k]) => NonDecreasing(EditionsOf(ledger[k]))

\* A second edition appended one second after the first.
LedgerTimestampsWitness ==
    /\ Done("CreateAsset")
    /\ Accepted
    /\ Len(EditionsOf(ledger[Target])) = 2
    /\ EditionsOf(ledger[Target])[1].timestamp = ToISOString(1)
    /\ EditionsOf(ledger[Target])[2].timestamp = ToISOString(2)
    /\ req.txTimestamp = 2

\* C18: edition identifiers are unique within a certificate. In every
\* reachable world state no two editions stored under one key have the same
\* id.
EditionIdsUnique ==
    \A k \in KeySet :
        \A i, j \in 1..Len(EditionsOf(ledger[k])) :
            i < j => EditionsOf(ledger[k])[i].id # EditionsOf(ledger[k])[j].id

(***************************************************************************)
(* Listing a world state that also holds values this contract did not       *)
(* write.                                                                   *)
(***************************************************************************)
ListValues ==
    OtherValues
    \cup {RawValue("not json"),
          ArrayValue(Certificate("H1", <<Edition("E1", <<Owner("k1")>>, ToISOString(1)),
                                        Edition("E2", <<Owner("k2")>>, ToISOString(2))>>),
                     "sorted")}

InitList ==
    /\ ledger \in [KeySet -> ListValues]
    /\ clock = 0
    /\ pc = "idle"
    /\ req = NoReq
    /\ resp = NoResp
    /\ pre = ledger
    /\ version = [k \in KeySet |-> 0]
    /\ tx = [c \in Clients |-> NoTx]

\* A client asks for the listing.
SubmitList ==
    /\ pc = "idle"
    /\ clock < MaxTime
    /\ req' = [fn |-> "GetAllAssets", txTimestamp |-> clock + 1]
    /\ clock' = clock + 1
    /\ pc' = "pending"
    /\ UNCHANGED <<ledger, resp, pre, version, tx>>

NextList == SubmitList \/ GetAllAssets \/ Return

SpecList == InitList /\ [][NextList]_vars

\* The keys that hold a value, in the order of the range query.
StoredKeys(state) == SelectSeq(Keys, LAMBDA k : state[k].shape # "absent")

\* C19: GetAllAssets lists everything and tolerates bad entries. From every
\* world state the call succeeds and returns one element per stored key, in
\* key order: the decoded value, or the raw string when the bytes do not
\* decode; no stored value changes.
ListsEverything ==
    Done("GetAllAssets")
        => /\ Accepted
           /\ ledger = pre
           /\ LET items == resp.value.items
                  stored == StoredKeys(pre)
              IN  /\ Len(items) = Len(stored)
                  /\ \A i \in 1..Len(items) :
                        items[i] = IF pre[stored[i]].shape = "raw"
                                   THEN StringValue(pre[stored[i]].text)
                                   ELSE pre[stored[i]]

\* A listing of two keys, the first of which holds bytes that do not decode.
ListsEverythingWitness ==
    /\ Done("GetAllAssets")
    /\ Accepted
    /\ pre[Keys[1]].shape = "raw"
    /\ StoredChain(pre[Keys[2]])
    /\ Len(resp.value.items) = 2
    /\ resp.value.items[1].shape = "string"
    /\ resp.value.items[2] = pre[Keys[2]]

\* C20: ownership policy of the KMS variant. On a stored chain the variant's
\* CreateAsset is accepted only if the identifiers of the buyer and owner
\* participants are the owners of the latest edition (same identifiers, same
\* counts), whatever the sellers are; so in every world state reached by
\* calls of the variant every edition of a chain has the owners of the
\* chain's first edition.
KmsOwnershipPolicy ==
    /\ (Done("CreateAssetKms") /\ Accepted /\ StoredChain(pre[Target]))
            => /\ SameIdentifiers(RoleIds(Submitted, {"buyer", "owner"}),
                                  OwnerList(LatestEdition(pre[Target].cert)))
               /\ OwnerList(LatestEdition(ledger[Target].cert))
                    = OwnerList(LatestEdition(pre[Target].cert))
    /\ \A k \in KeySet :
            StoredChain(ledger[k])
                => \A i \in 1..Len(EditionsOf(ledger[k])) :
                      OwnerIds(EditionsOf(ledger[k])[i]) = OwnerIds(EditionsOf(ledger[k])[1])

\* A third edition accepted although the seller is not the latest owner.
KmsOwnershipWitness ==
    /\ Done("CreateAssetKms")
    /\ Accepted
    /\ Len(EditionsOf(pre[Target])) = 2
    /\ Len(EditionsOf(ledger[Target])) = 3
    /\ IdsWithRole(Submitted, {"seller"}) = {"k2"}
    /\ OwnerIds(EditionsOf(ledger[Target])[3]) = {"k1"}

\* C21: no ownerless edition. Every edition of every chain CreateAsset
\* stored has at least one owner, and a successful CreateAsset call with at
\* least one participant appends an edition with at least one owner.
NoOwnerlessEdition ==
    /\ \A k \in KeySet :
            StoredChain(ledger[k])
                => \A i \in 1..Len(EditionsOf(ledger[k])) :
                      Len(EditionsOf(ledger[k])[i].owners) >= 1
    /\ (ParsedCreate /\ Accepted /\ Submitted # <<>>)
            => Len(LatestEdition(ledger[Target].cert).owners) >= 1

\* A value has the shape CreateAsset reads back: a chain whose certificate id
\* is the key, with at least one edition.
Extendable(k, v) == StoredChain(v) /\ v.cert.id = k /\ Len(v.cert.editions) >= 1
\* The seeded owner sells, with a valid signature.
SeedSale ==
    /\ pre[Target].shape = "object"
    /\ Len(Submitted) >= 1
    /\ SameIdentifiers(RoleIds(Submitted, {"seller"}),
                       OwnerList(LatestEdition(pre[Target].cert)))
    /\ AllSignaturesVerify

\* C22: every stored record is extendable. The value InitLedger or a
\* successful CreateAsset leaves under a key is a chain with that key as
\* certificate id and at least one edition, and a CreateAsset on the seeded
\* certificate whose sellers are the seeded owners, validly signed, succeeds
\* and leaves two editions.
StoredRecordsExtendable ==
    /\ Done("InitLedger") => Extendable(SeedCertificate.id, ledger[SeedCertificate.id])
    /\ (Done("CreateAsset") /\ Accepted) => Extendable(Target, ledger[Target])
    /\ (ParsedCreate /\ SeedSale)
            => (Accepted /\ Len(EditionsOf(ledger[Target])) = 2)

====
